---- MODULE Spec2Model ----
(***************************************************************************)
(* State-machine model of the collaborative workspace core of OctoBase    *)
(* (libs/jwst/src/workspaces/workspace.rs): a Workspace handle over a      *)
(* shared yrs document and y-sync awareness, its write/read transactions,  *)
(* and the y-sync message handlers.                                        *)
(*                                                                         *)
(* The document is modelled at the level of the YATA struct store that yrs *)
(* keeps: per client a contiguous list of items (clock = position), each   *)
(* item with parent, key, origin, content and a deleted flag.  Garbage     *)
(* collection of deleted content is not modelled (it does not change any   *)
(* projection).  Timestamps of edit records are left out.                  *)
(***************************************************************************)
EXTENDS Integers, Sequences, FiniteSets, TLC

\* ---------------------------------------------------------------- bounds
\* Local write transactions (block operations) performed in one run.
MaxOps == 3

\* ------------------------------------------------------------- universes
\* Arc<RwLock<Awareness>> objects.  Arc a holds the Doc whose client id is a.
\* Arcs 1 and 2 are the two workspaces; arc 3 is never allocated by the code.
Arcs == 1..3
Clients == Arcs
\* Workspace handles (values of type Workspace).
Handles == 1..3
\* Threads using handles of the workspaces.
Threads == 1..2
\* The remote workspace of a pairwise sync session.
Peer(a) == IF a = 1 THEN 2 ELSE 1

BlockIds == {"b1"}
Flavours == {"text"}
AttrKeys == {"k"}
AttrVals == {"v"}

NoId == <<0, 0>>
NoKey == ""
\* doc.get_or_insert_map("blocks") / ("updated")
RootBlocks == <<0, 1>>
RootUpdated == <<0, 2>>

\* ------------------------------------------------------- yrs struct store
EmptyStore == [c \in Clients |-> <<>>]

EmptyDoc == [store |-> EmptyStore, pending |-> {}, pendingDs |-> {}]

Ids(st) == UNION {{<<c, k>> : k \in 1..Len(st[c])} : c \in Clients}

Has(st, id) == id[1] \in Clients /\ id[2] \in 1..Len(st[id[1]])

Item(st, id) == st[id[1]][id[2]]

NewItem(p, k, o, c) ==
    [parent |-> p, key |-> k, origin |-> o, content |-> c, deleted |-> FALSE]

\* Items of parent p under key k whose left origin is o.
Children(st, p, k, o) ==
    {id \in Ids(st) : /\ Item(st, id).parent = p
                      /\ Item(st, id).key = k
                      /\ Item(st, id).origin = o}

MinClient(S) == CHOOSE id \in S : \A j \in S : id[1] <= j[1]

\* The YATA order of the items of (p, k): an item follows its origin, items
\* with the same origin are ordered by ascending client id, each followed by
\* the items inserted after it.
RECURSIVE Walk(_, _, _, _)
Walk(st, p, k, S) ==
    IF S = {} THEN <<>>
    ELSE LET m == MinClient(S)
         IN <<m>> \o Walk(st, p, k, Children(st, p, k, m)) \o Walk(st, p, k, S \ {m})

Order(st, p, k) == Walk(st, p, k, Children(st, p, k, NoId))

\* The entry a map keeps for key k: the rightmost item, deleted or not.
Entry(st, p, k) ==
    LET o == Order(st, p, k) IN IF o = <<>> THEN NoId ELSE o[Len(o)]

MarkDeleted(st, S) ==
    [c \in Clients |->
        [i \in 1..Len(st[c]) |->
            IF <<c, i>> \in S THEN [st[c][i] EXCEPT !.deleted = TRUE] ELSE st[c][i]]]

\* TransactionMut::delete: the items and, for a nested type, all it contains.
DeleteAll(st, S) ==
    MarkDeleted(st, S \cup {j \in Ids(st) : Item(st, j).parent \in S})

Delete(st, id) == DeleteAll(st, {id})

\* Item::integrate on the store st1 that holds the item already, ord the
\* order of the item's siblings: an item of a deleted parent is deleted; in a
\* map the last item is the value and the one left of it is deleted, and an
\* item that is not the last is deleted itself.
Settle(st1, id, it, ord) ==
    IF it.parent[1] # 0 /\ Item(st1, it.parent).deleted THEN Delete(st1, id)
    ELSE IF it.key = NoKey THEN st1
    ELSE IF ord[Len(ord)] = id
         THEN (IF Len(ord) > 1 THEN Delete(st1, ord[Len(ord) - 1]) ELSE st1)
         ELSE Delete(st1, id)

Place(st1, id, it) == Settle(st1, id, it, Order(st1, it.parent, it.key))

\* Item::integrate: append the item to its client's structs and place it.
IntegrateItem(st, id, it) ==
    Place([st EXCEPT ![id[1]] = Append(@, [it EXCEPT !.deleted = FALSE])], id, it)

NextId(st, cid) == <<cid, Len(st[cid]) + 1>>

\* Map::insert(txn, key, value) on the map p.
MapInsert(st, cid, p, k, c) ==
    IntegrateItem(st, NextId(st, cid), NewItem(p, k, Entry(st, p, k), c))

\* Array::push_back(txn, value) on the array p.
ArrayPush(st, cid, p, c) ==
    IntegrateItem(st, NextId(st, cid), NewItem(p, NoKey, Entry(st, p, NoKey), c))

\* Map::contains_key / Map::get: the entry exists and is not deleted.
ContainsKey(st, p, k) ==
    Entry(st, p, k) # NoId /\ ~Item(st, Entry(st, p, k)).deleted

\* Map::remove(txn, key).
MapRemove(st, p, k) ==
    IF Entry(st, p, k) = NoId THEN st ELSE Delete(st, Entry(st, p, k))

KeysOf(st, p) == {Item(st, id).key : id \in {j \in Ids(st) : Item(st, j).parent = p}}

LiveKeys(st, p) == {k \in KeysOf(st, p) \ {NoKey} : ContainsKey(st, p, k)}

\* Map::len
MapLen(st, p) == Cardinality(LiveKeys(st, p))

RECURSIVE LiveContents(_, _)
LiveContents(st, ord) ==
    IF ord = <<>> THEN <<>>
    ELSE (IF Item(st, Head(ord)).deleted THEN <<>> ELSE <<Item(st, Head(ord)).content>>)
         \o LiveContents(st, Tail(ord))

\* ToJson of a nested YMap / YArray held by item id.
MapJson(st, id) == [k \in LiveKeys(st, id) |-> Item(st, Entry(st, id, k)).content]

ArrayJson(st, id) == LiveContents(st, Order(st, id, NoKey))

BlocksJson(st) ==
    [b \in LiveKeys(st, RootBlocks) |-> MapJson(st, Entry(st, RootBlocks, b))]

UpdatedJson(st) ==
    [b \in LiveKeys(st, RootUpdated) |-> ArrayJson(st, Entry(st, RootUpdated, b))]

\* impl Serialize for Workspace
ToJson(st) == [blocks |-> BlocksJson(st), updated |-> UpdatedJson(st)]

\* ------------------------------------------------ block operations
\* An attribute written into the sub-map of block b.
PutAttr(st, cid, b, k, c) == MapInsert(st, cid, Entry(st, RootBlocks, b), k, c)

\* One record appended to the updated log of block b.
LogUpdate(st, cid, b, kind) ==
    ArrayPush(st, cid, Entry(st, RootUpdated, b), <<kind, cid>>)

\* WorkspaceTransaction::create / Block::new: does nothing when blocks[id] is
\* set; otherwise creates the sub-map, writes the flavour, initialises
\* updated[id] and appends one creation record.
Create(st, cid, b, f) ==
    IF ContainsKey(st, RootBlocks, b) THEN st
    ELSE LogUpdate(
            MapInsert(
                PutAttr(MapInsert(st, cid, RootBlocks, b, <<"YMap", 0>>),
                        cid, b, "sys:flavor", <<f, 0>>),
                cid, RootUpdated, b, <<"YArray", 0>>),
            cid, b, "add")

\* A removal that forgets the updated log of the block.
RemoveBlocksOnly(st, b) == MapRemove(st, RootBlocks, b)

\* WorkspaceTransaction::remove: removes blocks[id] and updated[id].
Remove(st, b) == MapRemove(MapRemove(st, RootBlocks, b), RootUpdated, b)

\* ... and returns whether the key was present.
RemoveResult(st, b) == ContainsKey(st, RootBlocks, b)

\* Block::set on an existing block: writes the attribute and appends one
\* update record to the block's log.
Set(st, cid, b, k, v) ==
    IF ~(ContainsKey(st, RootBlocks, b) /\ ContainsKey(st, RootUpdated, b)) THEN st
    ELSE LogUpdate(PutAttr(st, cid, b, k, <<v, 0>>), cid, b, "update")

\* The block operations a callback can make in a write transaction.
BlockOps ==
    {[op |-> "create", b |-> b, k |-> NoKey, v |-> f] : b \in BlockIds, f \in Flavours}
    \cup {[op |-> "remove", b |-> b, k |-> NoKey, v |-> ""] : b \in BlockIds}
    \cup {[op |-> "set", b |-> b, k |-> k, v |-> v] :
            b \in BlockIds, k \in AttrKeys, v \in AttrVals}

ApplyOp(st, cid, o) ==
    CASE o.op = "create" -> Create(st, cid, o.b, o.v)
      [] o.op = "remove" -> Remove(st, o.b)
      [] o.op = "set" -> Set(st, cid, o.b, o.k, o.v)

\* Workspace::exists and Workspace::get on a store
Exists(st, b) == ContainsKey(st, RootBlocks, b)

Get(st, b) ==
    IF ContainsKey(st, RootBlocks, b) /\ ContainsKey(st, RootUpdated, b)
    THEN <<b>> ELSE <<>>

\* Map::iter walks the branch's hash map: the live keys of the map, each once,
\* in an order the hasher of that map decides.
MapIter(st, p) ==
    {s \in [1..MapLen(st, p) -> LiveKeys(st, p)] :
        \A i, j \in DOMAIN s : s[i] = s[j] => i = j}

\* Iterator::zip stops with the shorter of the two iterations.
ZipLen(o1, o2) == IF Len(o1) < Len(o2) THEN Len(o1) ELSE Len(o2)

\* Block::from_raw_parts on the i-th pair of the zip: the id and the sub-map
\* come from the entry of blocks, the log from the entry of updated.
BlockFromRawParts(st, kb, ku) ==
    [id |-> kb, block |-> Entry(st, RootBlocks, kb), updated |-> Entry(st, RootUpdated, ku)]

\* Workspace::blocks: the sequences of Block handles the callback can be given.
Blocks(st) ==
    {[i \in 1..ZipLen(o1, o2) |-> BlockFromRawParts(st, o1[i], o2[i])] :
        o1 \in MapIter(st, RootBlocks), o2 \in MapIter(st, RootUpdated)}

\* ----------------------------------------------------------- updates
StateVector(st) == [c \in Clients |-> Len(st[c])]

EmptySv == [c \in Clients |-> 0]

Strip(it) == [it EXCEPT !.deleted = FALSE]

\* The structs of st not covered by the state vector sv.
DiffStructs(st, sv) ==
    {[id |-> id, item |-> Strip(Item(st, id))] : id \in {j \in Ids(st) : j[2] > sv[j[1]]}}

DeleteSetOf(st) == {id \in Ids(st) : Item(st, id).deleted}

NoUpdate == [structs |-> {}, ds |-> {}]

\* An encoding that leaves the delete set out.
EncodeStateNoDeleteSet(st, sv) == [structs |-> DiffStructs(st, sv), ds |-> {}]

\* ReadTxn::encode_state_as_update_v1(sv): the structs after sv and the whole
\* delete set of the store.
EncodeStateAsUpdate(st, sv) == [structs |-> DiffStructs(st, sv), ds |-> DeleteSetOf(st)]

\* TransactionMut::encode_update_v1 of a transaction that took the store from
\* before to after: the structs it added and the items it deleted.
EncodeUpdate(before, after) ==
    [structs |-> DiffStructs(after, StateVector(before)),
     ds |-> {id \in DeleteSetOf(after) : ~(Has(before, id) /\ Item(before, id).deleted)}]

DepsPresent(st, it) ==
    /\ it.origin = NoId \/ Has(st, it.origin)
    /\ it.parent[1] = 0 \/ Has(st, it.parent)

\* Update::integrate: integrate every struct whose predecessors are present;
\* what cannot be integrated yet stays pending.
RECURSIVE IntegrateAll(_, _)
IntegrateAll(st, cand) ==
    LET fresh == {s \in cand : ~Has(st, s.id)}
        ready == {s \in fresh : s.id = NextId(st, s.id[1]) /\ DepsPresent(st, s.item)}
    IN IF ready = {} THEN [store |-> st, rest |-> fresh]
       ELSE LET s == CHOOSE r \in ready : \A q \in ready : r.id[1] <= q.id[1]
            IN IntegrateAll(IntegrateItem(st, s.id, s.item), fresh \ {s})

\* The delete set ds applied to what was integrated: the items that are
\* present are deleted, the others stay pending.
ApplyDelete(r, ds) ==
    [store |-> DeleteAll(r.store, {id \in ds : Has(r.store, id)}),
     pending |-> r.rest,
     pendingDs |-> {id \in ds : ~Has(r.store, id)}]

\* TransactionMut::apply_update, with the retry of the pending update and of
\* the pending delete set.
ApplyUpdate(d, u) ==
    ApplyDelete(IntegrateAll(d.store, d.pending \cup u.structs), d.pendingDs \cup u.ds)

\* ---------------------------------------------------------- awareness
\* Awareness of the foreign client: its clock (0: never seen) and whether a
\* state is held for it.
EmptyAw == [clock |-> 0, present |-> FALSE]

\* Awareness::update: the entries of the clients that have a state.
AwUpdate(w) == IF w.present THEN {[clock |-> w.clock, null |-> FALSE]} ELSE {}

\* Awareness::apply_update for one entry of the foreign client.
AwApplyEntry(w, e) ==
    IF w.clock = 0 THEN [clock |-> e.clock, present |-> TRUE]
    ELSE IF e.clock > w.clock \/ (e.clock = w.clock /\ e.null /\ w.present)
         THEN [clock |-> e.clock, present |-> ~e.null]
         ELSE w

RECURSIVE AwApply(_, _)
AwApply(w, es) ==
    IF es = {} THEN w
    ELSE LET e == CHOOSE x \in es : \A y \in es : x.clock <= y.clock
         IN AwApply(AwApplyEntry(w, e), es \ {e})

\* ------------------------------------------------------------ frames
\* y_sync::sync::Message, every frame with the same fields.  reason "" is
\* Auth(None); an update that Update::decode_v1 rejects has bad = TRUE.
Frame(t, sv, u, es, reason, bad) ==
    [type |-> t, sv |-> sv, update |-> u, aw |-> es, reason |-> reason, bad |-> bad]

MsgStep1(sv) == Frame("SyncStep1", sv, NoUpdate, {}, "", FALSE)
MsgStep2(u) == Frame("SyncStep2", EmptySv, u, {}, "", FALSE)
MsgUpdate(u) == Frame("Update", EmptySv, u, {}, "", FALSE)
MsgAwareness(es) == Frame("Awareness", EmptySv, NoUpdate, es, "", FALSE)
MsgAwarenessQuery == Frame("AwarenessQuery", EmptySv, NoUpdate, {}, "", FALSE)
MsgAuth(reason) == Frame("Auth", EmptySv, NoUpdate, {}, reason, FALSE)
MsgCustom == Frame("Custom", EmptySv, NoUpdate, {}, "", FALSE)
\* An Update frame whose payload Update::decode_v1 rejects.
MsgBadUpdate(u) == Frame("Update", EmptySv, u, {}, "", TRUE)
\* Bytes that Message::decode rejects before the end of the frame (a wrong
\* length prefix, an unknown sync tag): the reader is left inside the frame.
MsgMalformed == Frame("Malformed", EmptySv, NoUpdate, {}, "", TRUE)

\* Result<Option<Message>, Error> of a handler, with the state it leaves.
Handled(d, w, ok, reply) == [doc |-> d, aw |-> w, ok |-> ok, reply |-> reply]

\* A Step1 handler that answers with the whole state, whatever sv says.
HandleSyncStep1Full(d, w, sv) ==
    Handled(d, w, TRUE, <<MsgStep2(EncodeStateAsUpdate(d.store, EmptySv))>>)

\* DefaultProtocol::handle_sync_step1
HandleSyncStep1(d, w, sv) ==
    Handled(d, w, TRUE, <<MsgStep2(EncodeStateAsUpdate(d.store, sv))>>)

\* A Step2 handler that integrates the structs and drops the delete set.
HandleSyncStep2StructsOnly(d, w, u) ==
    Handled(ApplyUpdate(d, [u EXCEPT !.ds = {}]), w, TRUE, <<>>)

\* A Step2 handler that acknowledges the update without applying it.
HandleSyncStep2Skip(d, w, u) == Handled(d, w, TRUE, <<>>)

\* DefaultProtocol::handle_sync_step2
HandleSyncStep2(d, w, u) == Handled(ApplyUpdate(d, u), w, TRUE, <<>>)

\* The SyncMessage::Update arm: apply, commit, reply with the re-encoded
\* update of the transaction.
Committed(d, w, d1) ==
    Handled(d1, w, TRUE, <<MsgUpdate(EncodeUpdate(d.store, d1.store))>>)

HandleUpdate(d, w, u) == Committed(d, w, ApplyUpdate(d, u))

\* DefaultProtocol::handle_auth
HandleAuth(d, w, reason) == Handled(d, w, reason = "", <<>>)

\* DefaultProtocol::handle_awareness_query
HandleAwarenessQuery(d, w) == Handled(d, w, TRUE, <<MsgAwareness(AwUpdate(w))>>)

\* DefaultProtocol::handle_awareness_update
HandleAwarenessUpdate(d, w, es) == Handled(d, AwApply(w, es), TRUE, <<>>)

\* DefaultProtocol::missing_handle
MissingHandle(d, w) == Handled(d, w, FALSE, <<>>)

\* Workspace::sync_handle_message
SyncHandleMessage(d, w, msg) ==
    CASE msg.type = "SyncStep1" -> HandleSyncStep1(d, w, msg.sv)
      [] msg.type = "SyncStep2" ->
            IF msg.bad THEN Handled(d, w, FALSE, <<>>)
            ELSE HandleSyncStep2(d, w, msg.update)
      [] msg.type = "Update" ->
            IF msg.bad THEN Handled(d, w, FALSE, <<>>)
            ELSE HandleUpdate(d, w, msg.update)
      [] msg.type = "Auth" -> HandleAuth(d, w, msg.reason)
      [] msg.type = "AwarenessQuery" -> HandleAwarenessQuery(d, w)
      [] msg.type = "Awareness" -> HandleAwarenessUpdate(d, w, msg.aw)
      [] msg.type = "Custom" -> MissingHandle(d, w)

\* Workspace::sync_decode_message: the frames of the buffer in their order;
\* a failed frame and a frame without reply add nothing to the replies.
\* The messages have no outer framing: after a frame that the reader rejects
\* midway, the bytes behind it are not read as the frames that were sent
\* (they yield errors or Custom messages, which give nothing).
RECURSIVE SyncDecodeMessage(_, _, _, _)
\* A collector that puts each reply in front of the earlier ones.
DecodeRestNewestFirst(r, frames, replies) ==
    SyncDecodeMessage(r.doc, r.aw, frames, IF r.ok THEN r.reply \o replies ELSE replies)

DecodeRest(r, frames, replies) ==
    SyncDecodeMessage(r.doc, r.aw, frames, IF r.ok THEN replies \o r.reply ELSE replies)

SyncDecodeMessage(d, w, frames, replies) ==
    IF frames = <<>> \/ Head(frames).type = "Malformed"
    THEN [doc |-> d, aw |-> w, replies |-> replies]
    ELSE DecodeRest(SyncHandleMessage(d, w, Head(frames)), Tail(frames), replies)

\* Workspace::sync_init_message / DefaultProtocol::start
SyncInitMessage(d, w) == <<MsgStep1(StateVector(d.store)), MsgAwareness(AwUpdate(w))>>

\* ------------------------------------------------------------ plugins
\* The plugin types a WorkspacePluginMap is keyed by.
Tags == {"IndexingPluginImpl"}

NoPlugin == [gen |-> 0, view |-> EmptyStore, calls |-> 0]

\* The plugin a WorkspacePluginConfig::setup returns: the gen-th instance made
\* for the handle; its index is empty until the first on_update.
NewPlugin(gen) == [gen |-> gen, view |-> EmptyStore, calls |-> 0]

\* WorkspacePluginMap::default
EmptyPluginMap == [tag \in Tags |-> NoPlugin]

\* WorkspacePluginMap::insert_plugin: TypeMap::insert, then Ok(self).
InsertPlugin(pm, tag, plugin) == [ok |-> TRUE, map |-> [pm EXCEPT ![tag] = plugin]]

\* WorkspacePluginMap::get_plugin
GetPlugin(pm, tag) == pm[tag]

\* WorkspacePlugin::on_update of the indexing plugin: it re-reads the
\* document into its index, or fails and leaves the index as it was.
OnUpdate(plugin, st, fails) ==
    IF fails THEN [plugin EXCEPT !.calls = @ + 1]
    ELSE [plugin EXCEPT !.view = st, !.calls = @ + 1]

\* WorkspacePluginMap::update_plugin: "Plugin not found", or the plugin's
\* on_update and its error.
UpdatePlugin(pm, tag, st, fails) ==
    IF pm[tag] = NoPlugin THEN [ok |-> FALSE, map |-> pm]
    ELSE [ok |-> ~fails, map |-> [pm EXCEPT ![tag] = OnUpdate(@, st, fails)]]

\* setup_plugin: the default plugins of a new Workspace value.
SetupPlugin(w) ==
    [w EXCEPT !.plugins = InsertPlugin(@, "IndexingPluginImpl", NewPlugin(1)).map]

\* found[h] before any search, after a search that returned Err, and after
\* one that answered from the index view.
NoSearch == [done |-> FALSE, ok |-> FALSE, hits |-> EmptyStore]

SearchErr == [done |-> TRUE, ok |-> FALSE, hits |-> EmptyStore]

SearchOk(view) == [done |-> TRUE, ok |-> TRUE, hits |-> view]

\* The RwLock around an Awareness: the thread holding the write guard (0 for
\* none) and whether a holder of the write guard panicked.
Unlocked == [writer |-> 0, poisoned |-> FALSE]

\* ------------------------------------------------------------- handles
NoHandle == [id |-> "", awareness |-> 0, plugins |-> EmptyPluginMap]

\* Workspace::new(id) on a fresh document held by arc a.
WorkspaceNew(id, a) == [id |-> id, awareness |-> a, plugins |-> EmptyPluginMap]

\* impl Clone for Workspace / Workspace::from_raw
\* A deep copy: the clone gets an awareness (and document) of its own.
WorkspaceDeepCopy(w) == [id |-> w.id, awareness |-> 3, plugins |-> EmptyPluginMap]

WorkspaceClone(w) == [id |-> w.id, awareness |-> w.awareness, plugins |-> EmptyPluginMap]

\* -------------------------------------------------------------- state
VARIABLES
    handle,     \* handle[h]: the Workspace value h (id, awareness arc), or NoHandle
    doc,        \* doc[a]: the document held by arc a (store, pending update)
    aw,         \* aw[a]: the awareness states held by arc a
    chan,       \* chan[a]: the buffers in flight to workspace a, oldest first
    open,       \* open[a]: workspace a has opened its sync session
    ret,        \* ret[a]: what the last sync_decode_message on a returned
    nops,       \* block operations made so far
    pc,         \* pc[t]: where thread t is
    th,         \* th[t]: the handle thread t is using
    res,        \* res[t]: the last operation of thread t and how it ended
    before,     \* before[t]: the store when thread t's write transaction began
    found,      \* found[h]: how the last search through handle h ended
    lock        \* lock[a]: the RwLock around the awareness held by arc a

vars == <<handle, doc, aw, chan, open, ret, nops, pc, th, res, before, found, lock>>

threadVars == <<pc, th, res, before>>
syncVars == <<aw, chan, open, ret>>
sideVars == <<found, lock>>

Workspaces == {1, 2}

Live(h) == handle[h] # NoHandle

ArcOf(h) == handle[h].awareness

Init ==
    /\ handle = [h \in Handles |->
                    IF h \in Workspaces
                    THEN SetupPlugin(WorkspaceNew(IF h = 1 THEN "w1" ELSE "w2", h))
                    ELSE NoHandle]
    /\ doc = [a \in Arcs |-> EmptyDoc]
    /\ aw = [a \in Arcs |-> EmptyAw]
    /\ chan = [a \in Arcs |-> <<>>]
    /\ open = [a \in Arcs |-> FALSE]
    /\ ret = [a \in Arcs |-> <<>>]
    /\ nops = 0
    /\ pc = [t \in Threads |-> "idle"]
    /\ th = [t \in Threads |-> 0]
    /\ res = [t \in Threads |-> ""]
    /\ before = [t \in Threads |-> EmptyStore]
    /\ found = [h \in Handles |-> NoSearch]
    /\ lock = [a \in Arcs |-> Unlocked]

\* ---------------------------------------------------------- transport
Buffer(from, frames) == [from |-> from, frames |-> frames]

Send(ch, to, from, frames) == [ch EXCEPT ![to] = Append(@, Buffer(from, frames))]

\* The update observer of an open session (Workspace::observe): a committed
\* local transaction that changed the document is sent to the peer as an
\* Update frame.
Publish(ch, a, u) ==
    IF a \in Workspaces /\ open[a] /\ u # NoUpdate
    THEN Send(ch, Peer(a), a, <<MsgUpdate(u)>>)
    ELSE ch

Forward(ch, a, old, new) == Publish(ch, a, EncodeUpdate(old, new))

\* A reply to a request goes back to the sender of the request; a re-encoded
\* Update is for the peers other than the sender.
RECURSIVE SendReplies(_, _, _, _)
SendReplies(ch, to, from, replies) ==
    IF replies = <<>> THEN ch
    ELSE SendReplies(IF Head(replies).type = "Update" \/ to \notin Workspaces THEN ch
                     ELSE Send(ch, to, from, <<Head(replies)>>),
                     to, from, Tail(replies))

\* ------------------------------------------------------------- actions
\* let w2 = w1.clone()
Clone(h) ==
    /\ Live(h) /\ ArcOf(h) = 1
    /\ \E g \in Handles :
        /\ ~Live(g)
        /\ handle' = [handle EXCEPT ![g] = SetupPlugin(WorkspaceClone(handle[h]))]
    /\ UNCHANGED <<doc, nops, syncVars, threadVars>>
    /\ UNCHANGED sideVars

\* Session open on workspace a: the init message goes to the peer and the
\* update observer is subscribed.
OpenSession(h) ==
    /\ Live(h) /\ ArcOf(h) \in Workspaces /\ ~open[ArcOf(h)]
    /\ open' = [open EXCEPT ![ArcOf(h)] = TRUE]
    /\ chan' = Send(chan, Peer(ArcOf(h)), ArcOf(h),
                    SyncInitMessage(doc[ArcOf(h)], aw[ArcOf(h)]))
    /\ UNCHANGED <<handle, doc, aw, ret, nops, threadVars>>
    /\ UNCHANGED sideVars

\* workspace.with_trx(|t| op), run to its end by one thread.
WithTrx(h, o) ==
    /\ Live(h) /\ nops < MaxOps
    /\ \E new \in {ApplyOp(doc[ArcOf(h)].store, ArcOf(h), o)} :
          /\ doc' = [doc EXCEPT ![ArcOf(h)].store = new]
          /\ chan' = Forward(chan, ArcOf(h), doc[ArcOf(h)].store, new)
    /\ nops' = nops + 1
    /\ UNCHANGED <<handle, aw, open, ret, threadVars>>
    /\ UNCHANGED sideVars

\* The transport hands workspace a its oldest buffer:
\* workspace.sync_decode_message(&binary), the replies sent on.
Deliver(h) ==
    /\ Live(h) /\ ArcOf(h) \in Workspaces /\ open[ArcOf(h)] /\ chan[ArcOf(h)] # <<>>
    /\ LET a == ArcOf(h)
           buf == Head(chan[a])
       IN \E r \in {SyncDecodeMessage(doc[a], aw[a], buf.frames, <<>>)} :
          /\ doc' = [doc EXCEPT ![a] = r.doc]
          /\ aw' = [aw EXCEPT ![a] = r.aw]
          /\ ret' = [ret EXCEPT ![a] = r.replies]
          /\ chan' = SendReplies([chan EXCEPT ![a] = Tail(@)], buf.from, a, r.replies)
    /\ UNCHANGED <<handle, open, nops, threadVars>>
    /\ UNCHANGED sideVars

\* Frames a foreign client (a browser peer on a session of its own) can send.
\* An update made by a remote document (client 3): it created block b1.
RemoteUpdate == EncodeStateAsUpdate(Create(EmptyStore, 3, "b1", "text"), EmptySv)

ForeignSvs == {EmptySv, [c \in Clients |-> IF c = 1 THEN 4 ELSE 0]}

ForeignFrames ==
    {MsgAwareness({[clock |-> 1, null |-> FALSE]}),
     MsgAwarenessQuery}
    \cup {MsgStep1(sv) : sv \in ForeignSvs}
    \cup {MsgUpdate(RemoteUpdate), MsgUpdate(NoUpdate)}

\* The transport hands workspace 1 a buffer of the foreign client's session
\* (the client is connected to workspace 1); the replies go back to it.
DeliverForeign(h, f) ==
    /\ Live(h) /\ ArcOf(h) = 1
    /\ LET a == ArcOf(h)
       IN \E r \in {SyncDecodeMessage(doc[a], aw[a], <<f>>, <<>>)} :
          /\ doc' = [doc EXCEPT ![a] = r.doc]
          /\ aw' = [aw EXCEPT ![a] = r.aw]
          /\ ret' = [ret EXCEPT ![a] = r.replies]
    /\ UNCHANGED <<handle, chan, open, nops, threadVars>>
    /\ UNCHANGED sideVars

\* Frames the foreign client can put together in one buffer.
BufferFrames ==
    {MsgAwarenessQuery, MsgStep1(EmptySv), MsgCustom, MsgAuth("denied"),
     MsgUpdate(RemoteUpdate), MsgBadUpdate(RemoteUpdate), MsgMalformed}

ForeignBuffers ==
    {<<MsgAwarenessQuery, MsgStep1(EmptySv)>>,
     <<MsgStep1(EmptySv), MsgAwarenessQuery>>,
     <<MsgUpdate(RemoteUpdate), MsgStep1(EmptySv)>>,
     <<MsgCustom, MsgAwarenessQuery>>,
     <<MsgBadUpdate(RemoteUpdate), MsgStep1(EmptySv)>>,
     <<MsgMalformed, MsgStep1(EmptySv)>>,
     <<MsgAuth("denied"), MsgUpdate(RemoteUpdate)>>,
     <<MsgAuth("denied"), MsgStep1(EmptySv)>>}

\* The transport hands workspace 1 a buffer of several frames of the foreign
\* client: workspace.sync_decode_message(&binary).
DeliverForeignBuffer(h, fs) ==
    /\ Live(h) /\ ArcOf(h) = 1
    /\ LET a == ArcOf(h)
       IN \E r \in {SyncDecodeMessage(doc[a], aw[a], fs, <<>>)} :
          /\ doc' = [doc EXCEPT ![a] = r.doc]
          /\ aw' = [aw EXCEPT ![a] = r.aw]
          /\ ret' = [ret EXCEPT ![a] = r.replies]
    /\ UNCHANGED <<handle, chan, open, nops, threadVars>>
    /\ UNCHANGED sideVars

\* Two workspaces in a sync session with each other, edited locally.
Next ==
    \/ \E h \in Handles : OpenSession(h)
    \/ \E h \in Handles, o \in BlockOps : WithTrx(h, o)
    \/ \E h \in Handles : Deliver(h)

Spec == Init /\ [][Next]_vars

\* --------------------------------------- a session that returns every reply
\* Every buffer sync_decode_message returned goes to the sender of the buffer
\* that was handled, one buffer per reply.
RECURSIVE SendAllReplies(_, _, _, _)
SendAllReplies(ch, to, from, replies) ==
    IF replies = <<>> THEN ch
    ELSE SendAllReplies(Send(ch, to, from, <<Head(replies)>>), to, from, Tail(replies))

DeliverAll(h) ==
    /\ Live(h) /\ ArcOf(h) \in Workspaces /\ open[ArcOf(h)] /\ chan[ArcOf(h)] # <<>>
    /\ LET a == ArcOf(h)
           buf == Head(chan[a])
       IN \E r \in {SyncDecodeMessage(doc[a], aw[a], buf.frames, <<>>)} :
          /\ doc' = [doc EXCEPT ![a] = r.doc]
          /\ aw' = [aw EXCEPT ![a] = r.aw]
          /\ ret' = [ret EXCEPT ![a] = r.replies]
          /\ chan' = SendAllReplies([chan EXCEPT ![a] = Tail(@)], buf.from, a, r.replies)
    /\ UNCHANGED <<handle, open, nops, threadVars>>
    /\ UNCHANGED sideVars

NextEcho ==
    \/ \E h \in Handles : OpenSession(h)
    \/ \E h \in Handles, o \in BlockOps : WithTrx(h, o)
    \/ \E h \in Handles : DeliverAll(h)

\* Each workspace opens its session at some time.
SpecEcho ==
    /\ Init /\ [][NextEcho]_vars
    /\ \A a \in Workspaces : WF_vars(OpenSession(a))

\* Workspace 1 and its clones, edited locally and serving a foreign client.
NextClient ==
    \/ \E h \in Handles : Clone(h)
    \/ \E h \in Handles, o \in BlockOps : WithTrx(h, o)
    \/ \E h \in Handles, f \in ForeignFrames : DeliverForeign(h, f)

SpecClient == Init /\ [][NextClient]_vars

\* Workspace 1, edited locally and given buffers of several frames.
NextBuffer ==
    \/ \E o \in BlockOps : WithTrx(1, o)
    \/ \E fs \in ForeignBuffers : DeliverForeignBuffer(1, fs)

SpecBuffer == Init /\ [][NextBuffer]_vars

\* ---------------------------------------------- a workspace of two blocks
WideBlockIds == {"b1", "b2"}

WideBlockOps ==
    {[op |-> "create", b |-> b, k |-> NoKey, v |-> "text"] : b \in WideBlockIds}
    \cup {[op |-> "remove", b |-> b, k |-> NoKey, v |-> ""] : b \in WideBlockIds}
    \cup {[op |-> "set", b |-> b, k |-> "title", v |-> "x"] : b \in WideBlockIds}

\* An update of a foreign client that wrote the two root maps directly:
\* a sub-map under blocks["b1"] and a log under updated["b2"].
OrphanUpdate ==
    EncodeStateAsUpdate(
        MapInsert(MapInsert(EmptyStore, 3, RootBlocks, "b1", <<"YMap", 0>>),
                  3, RootUpdated, "b2", <<"YArray", 0>>),
        EmptySv)

NextBlocks ==
    \/ \E o \in WideBlockOps : WithTrx(1, o)
    \/ DeliverForeign(1, MsgUpdate(OrphanUpdate))

SpecBlocks == Init /\ [][NextBlocks]_vars

\* ------------------------------------------------- plugins of a handle
\* Workspace::search: update_plugin::<IndexingPluginImpl>()?, then the query
\* on the plugin through with_plugin.
Search(h, fails) ==
    /\ Live(h) /\ ArcOf(h) = 1 /\ nops < MaxOps
    /\ \E r \in {UpdatePlugin(handle[h].plugins, "IndexingPluginImpl",
                               doc[ArcOf(h)].store, fails)} :
          /\ handle' = [handle EXCEPT ![h].plugins = r.map]
          /\ found' = [found EXCEPT ![h] =
                          IF r.ok THEN SearchOk(GetPlugin(r.map, "IndexingPluginImpl").view)
                          ELSE SearchErr]
    /\ nops' = nops + 1
    /\ UNCHANGED <<doc, syncVars, threadVars, lock>>

\* insert_plugin of one more instance of the indexing plugin into the map of
\* handle h.
Install(h) ==
    /\ Live(h) /\ ArcOf(h) = 1 /\ nops < MaxOps
    /\ \E r \in {InsertPlugin(handle[h].plugins, "IndexingPluginImpl",
                    NewPlugin(GetPlugin(handle[h].plugins, "IndexingPluginImpl").gen + 1))} :
          handle' = [handle EXCEPT ![h].plugins = r.map]
    /\ nops' = nops + 1
    /\ UNCHANGED <<doc, syncVars, threadVars, sideVars>>

NextPlugin ==
    \/ \E o \in WideBlockOps : WithTrx(1, o)
    \/ \E fails \in BOOLEAN : Search(1, fails)
    \/ Install(1)

SpecPlugin == Init /\ [][NextPlugin]_vars

\* ------------------------------------------- threads and transactions
\* The threads of the process that hosts workspace 1 use its handles.  A
\* thread holds a write transaction on the document of its handle while it
\* runs a with_trx ("cb") or try_with_trx ("try_cb") callback or handles an
\* Update frame ("sync"), and a read transaction while it reads ("read").
Active(t) == pc[t] # "idle"

WriteLive(a) ==
    \E t \in Threads : pc[t] \in {"cb", "try_cb", "sync", "cb_wait"} /\ ArcOf(th[t]) = a

ReadLive(a) == \E t \in Threads : pc[t] = "read" /\ ArcOf(th[t]) = a

\* An acquisition that excludes readers only.
TryTransactMutNoWriterCheck(a) == ~ReadLive(a)

\* Doc::try_transact_mut: the exclusive borrow of the store.
TryTransactMut(a) == ~WriteLive(a) /\ ~ReadLive(a)

\* A shared borrow that does not look for a writer.
TryTransactDirty(a) == TRUE

\* Doc::try_transact: a shared borrow of the store.
TryTransact(a) == ~WriteLive(a)

\* Handle h can be used by thread t: it is a handle of workspace 1, and no
\* other thread holds it by &mut self (sync_handle_message).
Usable(t, h) ==
    /\ Live(h) /\ ArcOf(h) = 1
    /\ \A u \in Threads \ {t} : ~(pc[u] = "sync" /\ th[u] = h)

Acquire(t, h, p) ==
    /\ pc' = [pc EXCEPT ![t] = p]
    /\ th' = [th EXCEPT ![t] = h]

Release(t) ==
    /\ pc' = [pc EXCEPT ![t] = "idle"]
    /\ th' = [th EXCEPT ![t] = 0]
    /\ before' = [before EXCEPT ![t] = EmptyStore]

\* Workspace::with_trx up to the call of f: doc.transact_mut() unwraps the
\* acquisition and panics when it fails.
WithTrxBegin(t, h) ==
    /\ pc[t] = "idle" /\ Usable(t, h)
    /\ IF TryTransactMut(ArcOf(h))
       THEN /\ Acquire(t, h, "cb")
            /\ before' = [before EXCEPT ![t] = doc[ArcOf(h)].store]
            /\ res' = [res EXCEPT ![t] = "running"]
       ELSE /\ res' = [res EXCEPT ![t] = "panic"]
            /\ UNCHANGED <<pc, th, before>>
    /\ UNCHANGED <<handle, doc, nops, syncVars>>
    /\ UNCHANGED sideVars

\* Workspace::try_with_trx up to the call of f.
TryWithTrxBegin(t, h) ==
    /\ pc[t] = "idle" /\ Usable(t, h)
    /\ IF TryTransactMut(ArcOf(h))
       THEN /\ Acquire(t, h, "try_cb")
            /\ before' = [before EXCEPT ![t] = doc[ArcOf(h)].store]
            /\ res' = [res EXCEPT ![t] = "running"]
       ELSE /\ res' = [res EXCEPT ![t] = "None"]
            /\ UNCHANGED <<pc, th, before>>
    /\ UNCHANGED <<handle, doc, nops, syncVars>>
    /\ UNCHANGED sideVars

\* The callback makes a block operation through its WorkspaceTransaction.
CbOp(t, o) ==
    /\ pc[t] \in {"cb", "try_cb"} /\ nops < MaxOps
    /\ doc' = [doc EXCEPT ![ArcOf(th[t])].store = ApplyOp(@, ArcOf(th[t]), o)]
    /\ nops' = nops + 1
    /\ UNCHANGED <<handle, syncVars, threadVars>>
    /\ UNCHANGED sideVars

\* What the drop of the WorkspaceTransaction leaves in the store: the
\* transaction commits, whether f returned or failed.
TrxDrop(old, new, failed) == new

\* The callback ends (it returns, or fails: an error value or a panic); the
\* transaction it was given is dropped.
CbEnd(t, failed) ==
    /\ pc[t] \in {"cb", "try_cb"}
    /\ LET a == ArcOf(th[t])
       IN \E new \in {TrxDrop(before[t], doc[a].store, failed)} :
          /\ doc' = [doc EXCEPT ![a].store = new]
          /\ chan' = Forward(chan, a, before[t], new)
    /\ Release(t)
    /\ res' = [res EXCEPT ![t] = IF failed THEN "failed"
                                 ELSE IF pc[t] = "try_cb" THEN "Some" ELSE "returned"]
    /\ UNCHANGED <<handle, aw, open, ret, nops>>
    /\ UNCHANGED sideVars

\* A read operation (block_count, metadata, serialize, sync_migration) up to
\* self.doc().transact(), which unwraps the acquisition.
ReadBegin(t, h) ==
    /\ pc[t] = "idle" /\ Usable(t, h)
    /\ IF TryTransact(ArcOf(h))
       THEN /\ Acquire(t, h, "read")
            /\ res' = [res EXCEPT ![t] = "running"]
       ELSE /\ res' = [res EXCEPT ![t] = "read_panic"]
            /\ UNCHANGED <<pc, th>>
    /\ UNCHANGED <<handle, doc, nops, syncVars, before>>
    /\ UNCHANGED sideVars

\* ... the read is made and its transaction dropped.
ReadEnd(t) ==
    /\ pc[t] = "read"
    /\ Release(t)
    /\ res' = [res EXCEPT ![t] = "read"]
    /\ UNCHANGED <<handle, doc, nops, syncVars>>
    /\ UNCHANGED sideVars

\* sync_handle_message(Update) up to doc.transact_mut(); it takes &mut self.
SyncUpdateBegin(t, h) ==
    /\ pc[t] = "idle" /\ Usable(t, h)
    /\ \A u \in Threads \ {t} : ~(Active(u) /\ th[u] = h)
    /\ IF TryTransactMut(ArcOf(h))
       THEN /\ Acquire(t, h, "sync")
            /\ res' = [res EXCEPT ![t] = "running"]
       ELSE /\ res' = [res EXCEPT ![t] = "sync_panic"]
            /\ UNCHANGED <<pc, th>>
    /\ UNCHANGED <<handle, doc, nops, syncVars, before>>
    /\ UNCHANGED sideVars

\* ... apply_update, commit, encode_update_v1 and the drop of the transaction.
SyncUpdateEnd(t) ==
    /\ pc[t] = "sync"
    /\ LET a == ArcOf(th[t])
       IN \E r \in {SyncHandleMessage(doc[a], aw[a], MsgUpdate(RemoteUpdate))} :
          /\ doc' = [doc EXCEPT ![a] = r.doc]
          /\ ret' = [ret EXCEPT ![a] = r.reply]
    /\ Release(t)
    /\ res' = [res EXCEPT ![t] = "synced"]
    /\ UNCHANGED <<handle, aw, chan, open, nops>>
    /\ UNCHANGED sideVars

NextTrx ==
    \/ \E h \in Handles : Clone(h)
    \/ \E t \in Threads, h \in Handles : WithTrxBegin(t, h)
    \/ \E t \in Threads, h \in Handles : TryWithTrxBegin(t, h)
    \/ \E t \in Threads, o \in BlockOps : CbOp(t, o)
    \/ \E t \in Threads, failed \in BOOLEAN : CbEnd(t, failed)
    \/ \E t \in Threads, h \in Handles : ReadBegin(t, h)
    \/ \E t \in Threads : ReadEnd(t)
    \/ \E t \in Threads, h \in Handles : SyncUpdateBegin(t, h)
    \/ \E t \in Threads : SyncUpdateEnd(t)

SpecTrx == Init /\ [][NextTrx]_vars

\* sync_handle_message(SyncStep1(sv)); it takes &mut self. handle_sync_step1
\* reads through awareness.doc().transact(), which unwraps the acquisition,
\* encodes the state as an update and drops the transaction.
SyncStep1(t, h, sv) ==
    /\ pc[t] = "idle" /\ Usable(t, h)
    /\ \A u \in Threads \ {t} : ~(Active(u) /\ th[u] = h)
    /\ IF TryTransact(ArcOf(h))
       THEN /\ \E r \in {SyncHandleMessage(doc[ArcOf(h)], aw[ArcOf(h)], MsgStep1(sv))} :
                  ret' = [ret EXCEPT ![ArcOf(h)] = r.reply]
            /\ res' = [res EXCEPT ![t] = "replied"]
       ELSE /\ res' = [res EXCEPT ![t] = "read_panic"]
            /\ UNCHANGED ret
    /\ UNCHANGED <<handle, doc, aw, chan, open, nops, pc, th, before>>
    /\ UNCHANGED sideVars

NextEmit ==
    \/ \E h \in Handles : Clone(h)
    \/ \E t \in Threads, h \in Handles : WithTrxBegin(t, h)
    \/ \E t \in Threads, o \in BlockOps : CbOp(t, o)
    \/ \E t \in Threads, failed \in BOOLEAN : CbEnd(t, failed)
    \/ \E t \in Threads, h \in Handles : SyncStep1(t, h, EmptySv)
    \/ \E t \in Threads, h \in Handles : SyncUpdateBegin(t, h)
    \/ \E t \in Threads : SyncUpdateEnd(t)

SpecEmit == Init /\ [][NextEmit]_vars

\* ------------------------------------- the awareness lock and the document
\* Workspace::with_trx reaches the document through self.doc(), which takes
\* the awareness read lock for the clone of the Doc: it waits while a write
\* guard is held and panics on a poisoned lock.
LockedWithTrxBegin(t, h) ==
    /\ Live(h) /\ lock[ArcOf(h)] = Unlocked
    /\ WithTrxBegin(t, h)

\* The callback of with_trx calls Workspace::get (client_id, doc alike):
\* self.awareness.read().unwrap() while the write transaction is held. On a
\* poisoned lock the unwrap fails the callback, which is CbEnd.
CbGet(t) ==
    /\ pc[t] = "cb"
    /\ ~lock[ArcOf(th[t])].poisoned
    /\ IF lock[ArcOf(th[t])].writer # 0
       THEN /\ pc' = [pc EXCEPT ![t] = "cb_wait"]
            /\ UNCHANGED res
       ELSE /\ res' = [res EXCEPT ![t] = "got"]
            /\ UNCHANGED pc
    /\ UNCHANGED <<handle, doc, nops, syncVars, th, before, sideVars>>

\* The read lock is granted once the write guard is gone: read() returns and
\* unwrap panics when the holder of the write guard panicked, which unwinds
\* the callback and drops its transaction.
CbWake(t) ==
    /\ pc[t] = "cb_wait" /\ lock[ArcOf(th[t])].writer = 0
    /\ IF lock[ArcOf(th[t])].poisoned
       THEN /\ Release(t)
            /\ res' = [res EXCEPT ![t] = "failed"]
            /\ chan' = Forward(chan, ArcOf(th[t]), before[t], doc[ArcOf(th[t])].store)
       ELSE /\ pc' = [pc EXCEPT ![t] = "cb"]
            /\ res' = [res EXCEPT ![t] = "got"]
            /\ UNCHANGED <<th, before, chan>>
    /\ UNCHANGED <<handle, doc, aw, open, ret, nops, sideVars>>

\* sync_handle_message(SyncStep2(update)) up to handle_sync_step2: it takes
\* &mut self and the awareness write guard.
SyncStep2Begin(t, h) ==
    /\ pc[t] = "idle" /\ Usable(t, h)
    /\ \A u \in Threads \ {t} : ~(Active(u) /\ th[u] = h)
    /\ lock[ArcOf(h)] = Unlocked
    /\ lock' = [lock EXCEPT ![ArcOf(h)].writer = t]
    /\ Acquire(t, h, "step2")
    /\ res' = [res EXCEPT ![t] = "running"]
    /\ UNCHANGED <<handle, doc, nops, syncVars, before, found>>

\* ... handle_sync_step2: awareness.doc().transact_mut() unwraps the
\* acquisition; the update is applied and the guard dropped, or the panic
\* unwinds through the guard and poisons the lock.
SyncStep2End(t) ==
    /\ pc[t] = "step2"
    /\ LET a == ArcOf(th[t])
       IN IF TryTransactMut(a)
          THEN /\ \E r \in {SyncHandleMessage(doc[a], aw[a], MsgStep2(RemoteUpdate))} :
                     doc' = [doc EXCEPT ![a] = r.doc]
               /\ lock' = [lock EXCEPT ![a].writer = 0]
               /\ res' = [res EXCEPT ![t] = "synced"]
          ELSE /\ lock' = [lock EXCEPT ![a] = [writer |-> 0, poisoned |-> TRUE]]
               /\ res' = [res EXCEPT ![t] = "sync_panic"]
               /\ UNCHANGED doc
    /\ Release(t)
    /\ UNCHANGED <<handle, nops, syncVars, found>>

NextLock ==
    \/ \E h \in Handles : Clone(h)
    \/ \E t \in Threads, h \in Handles : LockedWithTrxBegin(t, h)
    \/ \E t \in Threads, o \in BlockOps : CbOp(t, o)
    \/ \E t \in Threads, failed \in BOOLEAN : CbEnd(t, failed)
    \/ \E t \in Threads : CbGet(t)
    \/ \E t \in Threads : CbWake(t)
    \/ \E t \in Threads, h \in Handles : SyncStep2Begin(t, h)
    \/ \E t \in Threads : SyncStep2End(t)

SpecLock == Init /\ [][NextLock]_vars

\* ============================================================== claims
\* C1: in every reachable state of every workspace (local creates, sets and
\* removes on any handle, and updates received from the peer), a block id is
\* a key of the blocks map if and only if it is a key of the updated map.
BlocksIffUpdated ==
    \A a \in Arcs, b \in BlockIds :
        ContainsKey(doc[a].store, RootBlocks, b) <=> ContainsKey(doc[a].store, RootUpdated, b)

\* Workspace 1 holds block b1 while workspace 2 holds its removed entries.
BlocksIffUpdatedWitness ==
    /\ ContainsKey(doc[1].store, RootBlocks, "b1")
    /\ ContainsKey(doc[1].store, RootUpdated, "b1")
    /\ Entry(doc[2].store, RootBlocks, "b1") # NoId
    /\ Entry(doc[2].store, RootUpdated, "b1") # NoId
    /\ ~ContainsKey(doc[2].store, RootBlocks, "b1")

\* C2: once both workspaces have opened the session and both inboxes are
\* drained, the JSON projections (blocks and updated) of the two workspaces
\* are equal, whatever the interleaving of local edits and deliveries was.
Drained == open[1] /\ open[2] /\ chan[1] = <<>> /\ chan[2] = <<>>

ConvergedWhenDrained == Drained => ToJson(doc[1].store) = ToJson(doc[2].store)

\* Both inboxes are drained after each workspace integrated items of the other.
ConvergedWhenDrainedWitness ==
    /\ Drained
    /\ Len(doc[1].store[2]) > 0
    /\ Len(doc[2].store[1]) > 0

\* C3: at most one write transaction is live on a document at any time: the
\* transaction of the Update arm of sync_handle_message and the transactions
\* of with_trx / try_with_trx on any handle of the workspace exclude each
\* other.
Writers(a) ==
    {t \in Threads : pc[t] \in {"cb", "try_cb", "sync"} /\ ArcOf(th[t]) = a}

AtMostOneWriter == \A a \in Arcs : Cardinality(Writers(a)) <= 1

\* A thread handles an Update frame on one handle after a thread using the
\* clone was refused the write transaction.
AtMostOneWriterWitness ==
    \E t \in Threads, u \in Threads :
        /\ pc[t] = "sync" /\ th[t] = 1
        /\ Live(3) /\ pc[u] = "idle" /\ res[u] \in {"None", "panic"}

\* C4 (as claimed): try_with_trx returns None, leaving the document as it
\* is, exactly when a write transaction is in progress on the document, and
\* otherwise enters the callback in a write transaction.
TryWithTrxNoneIffWriteLive ==
    [][\A t \in Threads, h \in Handles :
          TryWithTrxBegin(t, h) =>
              IF WriteLive(ArcOf(h)) THEN res'[t] = "None" /\ pc'[t] = "idle"
              ELSE pc'[t] = "try_cb"]_vars

\* C5 (as claimed): when the callback of with_trx / try_with_trx fails, the
\* document is what it was before the transaction began.
FailedCallbackLeavesDocUnchanged ==
    [][\A t \in Threads :
          (pc[t] \in {"cb", "try_cb"} /\ pc'[t] = "idle" /\ res'[t] = "failed")
              => doc'[ArcOf(th[t])].store = before[t]]_vars

\* C6 (as claimed): a read started while a write transaction is live
\* completes, and a write transaction is acquired while only a read
\* transaction is live.
ReadsAndWritesCoexist ==
    [][\A t \in Threads, h \in Handles :
          /\ ReadBegin(t, h) => pc'[t] = "read"
          /\ (WithTrxBegin(t, h) /\ ~WriteLive(ArcOf(h))) => pc'[t] = "cb"]_vars

\* C7: every handle obtained by clone() reads the same blocks, the same
\* updated and the same awareness state as the handle it was cloned from,
\* after any mutations made through either of them.
View(h) == [json |-> ToJson(doc[ArcOf(h)].store), awareness |-> aw[ArcOf(h)]]

CloneSharesState ==
    \A h \in Handles, g \in Handles :
        (h < g /\ Live(h) /\ Live(g) /\ handle[h].id = handle[g].id) => View(h) = View(g)

\* A clone exists, a block was created and an awareness state was set.
CloneSharesStateWitness ==
    /\ Live(3) /\ handle[3].id = handle[1].id
    /\ ContainsKey(doc[1].store, RootBlocks, "b1")
    /\ aw[1].present

\* C8: the update of sync_migration(), applied to a fresh empty document,
\* gives a document with the same blocks and updated JSON as the workspace.
SyncMigration(a) == EncodeStateAsUpdate(doc[a].store, EmptySv)

SyncMigrationRoundTrip ==
    \A a \in Workspaces :
        ToJson(ApplyUpdate(EmptyDoc, SyncMigration(a)).store) = ToJson(doc[a].store)

\* A workspace holds deleted items (a removed or overwritten entry).
SyncMigrationRoundTripWitness ==
    \E a \in Workspaces :
        /\ DeleteSetOf(doc[a].store) # {}
        /\ SyncMigration(a).structs # {}

\* C9: when a fresh workspace a handles the Step2 frame by which its
\* populated peer answered a's Step1(empty state vector), a's JSON equals
\* the peer's, nothing is left pending and nothing is replied.  (The code
\* keeps no session state; Synced is read as "the Step2 has been applied".)
Step2FromPeerAtHead(a) ==
    /\ open[a] /\ chan[a] # <<>>
    /\ doc[a] = EmptyDoc
    /\ doc[Peer(a)].store # EmptyStore
    /\ Head(chan[a]).frames =
            <<MsgStep2(EncodeStateAsUpdate(doc[Peer(a)].store, EmptySv))>>

NotCovered(st, sv) ==
    {[id |-> id, item |-> [Item(st, id) EXCEPT !.deleted = FALSE]] :
        id \in {j \in Ids(st) : j[2] > sv[j[1]]}}

Step1RepliesStep2 ==
    [][\A sv \in ForeignSvs :
          DeliverForeign(1, MsgStep1(sv)) =>
              /\ Len(ret'[1]) = 1
              /\ ret'[1][1].type = "SyncStep2"
              /\ ret'[1][1].update.structs = NotCovered(doc[1].store, sv)
              /\ UNCHANGED <<handle, doc, aw, chan, open>>]_vars

\* The reply to a Step1 whose state vector covers a part of the local
\* structs: the rest of them, one Step2 frame.
Step1RepliesStep2Witness ==
    /\ Len(ret[1]) = 1
    /\ ret[1][1].type = "SyncStep2"
    /\ ret[1][1].update.structs # {}
    /\ ret[1][1].update.structs # DiffStructs(doc[1].store, EmptySv)
    /\ ret[1][1].update.structs = DiffStructs(doc[1].store, [c \in Clients |-> IF c = 1 THEN 4 ELSE 0])

\* C11 (as claimed): handling an Update frame gives an output message only
\* when the update changed the document; a duplicate or no-op update gives
\* no output.
UpdateRepliesOnlyOnChange ==
    [][\A f \in ForeignFrames :
          (f.type = "Update" /\ DeliverForeign(1, f)) =>
              (ret'[1] # <<>> <=> doc'[1] # doc[1])]_vars

\* C12: the frames of a buffer are handled in their order, each once, and
\* the replies are returned in the order of the frames that produced them:
\* for a buffer <<f, g>> the second frame is handled on the state the first
\* one left, and the replies of f come before those of g.
RepliesOf(r) == IF r.ok THEN r.reply ELSE <<>>

InOrder(fs) ==
    \E r1 \in {SyncHandleMessage(doc[1], aw[1], fs[1])} :
      \E r2 \in {SyncHandleMessage(r1.doc, r1.aw, fs[2])} :
          /\ doc'[1] = r2.doc
          /\ aw'[1] = r2.aw
          /\ ret'[1] = RepliesOf(r1) \o RepliesOf(r2)

RepliesInFrameOrder ==
    [][\A fs \in ForeignBuffers :
          (nops' = nops /\ fs[1].type # "Malformed" /\ fs[2].type # "Malformed"
           /\ DeliverForeignBuffer(1, fs)) => InOrder(fs)]_vars

\* The replies to a buffer <<AwarenessQuery, Step1>>.
RepliesInFrameOrderWitness ==
    /\ Len(ret[1]) = 2
    /\ ret[1][1].type = "Awareness"
    /\ ret[1][2].type = "SyncStep2"

\* C13 (as claimed): a frame that is malformed, or whose update fails to
\* decode, is dropped alone: the buffer <<bad, f>> has the effect and the
\* replies of the buffer <<f>>.
BadFrames == {f \in BufferFrames : f.bad}

BadFrameDroppedAlone ==
    [][\A fs \in ForeignBuffers :
          (fs[1] \in BadFrames /\ DeliverForeignBuffer(1, fs)) =>
              \E r \in {SyncDecodeMessage(doc[1], aw[1], <<fs[2]>>, <<>>)} :
                  doc'[1] = r.doc /\ aw'[1] = r.aw /\ ret'[1] = r.replies]_vars

\* C14 (as claimed): after an Auth frame that denies access, no later frame
\* of the session is applied to the document or answered.
DeniedIsTerminal ==
    [][\A fs \in ForeignBuffers :
          (fs[1] = MsgAuth("denied") /\ DeliverForeignBuffer(1, fs)) =>
              doc'[1] = doc[1] /\ ret'[1] = <<>>]_vars

\* C15: a remove of block b leaves b a key of neither root map, so that exists
\* is false and get is None; it returns true exactly when blocks held b before;
\* and every other block keeps its attributes and its log.
IsRemoveOf(b) == WithTrx(1, [op |-> "remove", b |-> b, k |-> NoKey, v |-> ""])

OtherBlocksKept(old, new, b) ==
    \A c \in WideBlockIds \ {b} :
        /\ ContainsKey(new, RootBlocks, c) = ContainsKey(old, RootBlocks, c)
        /\ ContainsKey(new, RootUpdated, c) = ContainsKey(old, RootUpdated, c)
        /\ ContainsKey(old, RootBlocks, c) => BlocksJson(new)[c] = BlocksJson(old)[c]
        /\ ContainsKey(old, RootUpdated, c) => UpdatedJson(new)[c] = UpdatedJson(old)[c]

RemoveRemoves ==
    [][\A b \in WideBlockIds :
         IsRemoveOf(b) =>
            /\ ~ContainsKey(doc'[1].store, RootBlocks, b)
            /\ ~ContainsKey(doc'[1].store, RootUpdated, b)
            /\ ~Exists(doc'[1].store, b)
            /\ Get(doc'[1].store, b) = <<>>
            /\ RemoveResult(doc[1].store, b) = (b \in DOMAIN BlocksJson(doc[1].store))
            /\ OtherBlocksKept(doc[1].store, doc'[1].store, b)]_vars

RemoveRemovesWitness ==
    /\ Entry(doc[1].store, RootBlocks, "b1") # NoId
    /\ Entry(doc[1].store, RootUpdated, "b1") # NoId
    /\ ~Exists(doc[1].store, "b1")
    /\ Get(doc[1].store, "b2") = <<"b2">>

\* C16: the block iteration yields each block id that is a key of both root
\* maps exactly once, as a Block whose log is updated[id], also when the key
\* sets of the two maps differ.
InBothMaps(st) == LiveKeys(st, RootBlocks) \cap LiveKeys(st, RootUpdated)

BlocksYieldOwnLogs ==
    \A bs \in Blocks(doc[1].store) :
        /\ Len(bs) = Cardinality(InBothMaps(doc[1].store))
        /\ {bs[i].id : i \in DOMAIN bs} = InBothMaps(doc[1].store)
        /\ \A i \in DOMAIN bs :
              bs[i].updated = Entry(doc[1].store, RootUpdated, bs[i].id)

\* C17: every update the sync engine has emitted (a SyncStep2 reply or a
\* re-encoded Update) holds only structs and deletions of the committed
\* document: nothing of a write transaction that is still open.
CommittedStore(a) ==
    IF \E t \in Threads : pc[t] \in {"cb", "try_cb"} /\ ArcOf(th[t]) = a
    THEN before[CHOOSE t \in Threads : pc[t] \in {"cb", "try_cb"} /\ ArcOf(th[t]) = a]
    ELSE doc[a].store

EmittedUpdates(a) ==
    {ret[a][i].update : i \in {j \in DOMAIN ret[a] : ret[a][j].type \in {"SyncStep2", "Update"}}}

EmitsOnlyCommitted ==
    \A u \in EmittedUpdates(1) :
        /\ u.structs \subseteq DiffStructs(CommittedStore(1), EmptySv)
        /\ u.ds \subseteq DeleteSetOf(CommittedStore(1))

EmitsOnlyCommittedWitness ==
    /\ \E u \in EmittedUpdates(1) : u.structs # {} /\ u.ds # {}
    /\ \E t \in Threads : pc[t] = "cb" /\ doc[1].store # before[t]

\* C18: a search through the default indexing plugin of a handle runs
\* on_update exactly when the document was mutated since the install or the
\* last successful on_update, and an answer is never from a stale view.
DefaultPlugin == GetPlugin(handle[1].plugins, "IndexingPluginImpl")

MutatedSinceUpdate == DefaultPlugin.view # doc[1].store

OnUpdateIffDirty ==
    [][\A fails \in BOOLEAN :
         (Search(1, fails) /\ DefaultPlugin.gen = 1) =>
            /\ (DefaultPlugin'.calls = DefaultPlugin.calls + 1) <=> MutatedSinceUpdate
            /\ found'[1].ok => found'[1].hits = doc[1].store]_vars

\* C19: an insert_plugin for a type the map already holds fails and leaves
\* the instance it held in place.
InstallOnOccupiedFails ==
    [][(Install(1) /\ DefaultPlugin # NoPlugin) =>
            /\ ~InsertPlugin(handle[1].plugins, "IndexingPluginImpl",
                              NewPlugin(DefaultPlugin.gen + 1)).ok
            /\ DefaultPlugin' = DefaultPlugin]_vars

\* C20: two threads on handles of one workspace never stand so that one, in
\* a with_trx callback, waits for the awareness lock whose write guard the
\* other holds, while the other, handling a SyncStep2, is about to fail on
\* the document transaction the first holds.
NoLockCycle ==
    \A t, u \in Threads :
        ~(/\ pc[t] = "cb_wait" /\ pc[u] = "step2"
          /\ ArcOf(th[t]) = ArcOf(th[u])
          /\ lock[ArcOf(th[u])].writer = u
          /\ ~TryTransactMut(ArcOf(th[u])))

\* C21: with every returned reply delivered to the peer, finitely many local
\* edits and fair delivery (a workspace that keeps having a buffer to handle
\* handles one: weak fairness of DeliverAll), the exchange comes to rest: from
\* some point on no frame is in flight.
Quiescent == chan[1] = <<>> /\ chan[2] = <<>>

CanDeliver(a) == open[a] /\ chan[a] # <<>>

FairDelivery ==
    \A a \in Workspaces : []<>(~CanDeliver(a)) \/ []<><<DeliverAll(a)>>_vars

EventuallyQuiescent == FairDelivery => <>[]Quiescent

====
